---- MODULE Spec2Model ----
(***************************************************************************)
(* VoteTrackerPlus: the accept-ballot (submission) and merge-contests      *)
(* (merge engine) operations over a git remote.                            *)
(*                                                                         *)
(* The git state is a commit graph (commits), the refs of the remote       *)
(* (rmain, rbr) and, per clone, its main, its local CVR branches and its   *)
(* remote-tracking refs.  The scanner clone runs accept-ballot and the     *)
(* merge-contests runs without --remote; the server clone runs the         *)
(* merge-contests runs with --remote.  printonly is off throughout.        *)
(***************************************************************************)
EXTENDS Integers, Sequences, FiniteSets, TLC

\* ------------------------------------------------------------ bounds
MaxBranches == 2
MaxFaults == 1
MaxK == 1
ReceiptRows == 1
MaxRows == 2

UIDS == {"A", "B"}
UidSeq == <<"A", "B">>
Nodes == {"scanner", "server"}
NoBranch == [pfx |-> FALSE, uid |-> "-", tok |-> 0, gen |-> 0]

VARIABLES
    commits,   \* the object store: commit id -> [par, kind, uid, data]
    rmain,     \* head of main on the remote
    rbr,       \* CVR branches on the remote: name -> tip
    lmain,     \* per clone: head of the local main
    lbr,       \* per clone: local branches other than main: name -> tip
    ltrack,    \* per clone: remote-tracking refs origin/<name>: name -> tip
    nbr,       \* number of branch names that came to exist so far
    faults,    \* number of command failures so far
    mpc,       \* merge-contests: position
    margs,     \* merge-contests: the arguments of the current or last run
    mgroups,   \* merge-contests: batches still to be handed to randomly_merge_contests
    mbatch,    \* randomly_merge_contests: batch
    mloop,     \* randomly_merge_contests: loop
    mcur,      \* merge_contest_branch: branch
    mrun,      \* merge-contests: merged, count, and the history of the current or last run
    quiet,     \* history: nothing was submitted since the last run ended
    apc,       \* accept-ballot: position
    aballot,   \* accept-ballot: the uids of the ballot's contests, in order
    ai,        \* accept-ballot: index of the contest (loop 429) or branch (loop 463)
    abranches, \* accept-ballot: branches
    areceipts, \* accept-ballot: contest_receipts, uid -> digest (0: no entry)
    aunmerged, \* accept-ballot: unmerged_cvrs, uid -> digests
    atry,      \* checkout_new_contest_branch: attempts made
    abranch,   \* checkout_new_contest_branch: branch
    abp,       \* checkout_new_contest_branch: branchpoint
    ahead,     \* the branch checked out in the scanner clone (NoBranch: main)
    acall,     \* history of the current or last checkout_new_contest_branch call
    asub       \* history of the current or last submission

VARIABLES
    rpc,       \* receipt stage of a submission: position
    rR,        \* BALLOT_RECEIPT_ROWS
    rballot,   \* the uids of the ballot's contests, in order
    rheads,    \* the digests of the heads of the clone's branches
    rsnap,     \* unmerged_cvrs as loaded: uid -> digests (<<>>: uid is no key)
    rshuf,     \* unmerged_cvrs after the shuffle of create_ballot_receipt
    rdig,      \* contest_receipts: uid -> digest (0: no entry)
    ri,        \* index of the contest in hand
    rout       \* what create_ballot_receipt returned

VARIABLES
    cpc,       \* Contest: position
    cblob,     \* Contest: a_contest_blob, [name, contest]
    cres       \* Contest: what check_syntax or the constructor gave

VARIABLES
    mprev,     \* history: how the merge-contests run before the current one went
    aissued,   \* history: the digests of the receipts of completed submissions
    drv,       \* run_mock_election: position, arguments and the commands run
    peer       \* a second scanner on the same remote: its accept-ballot run

hvars == <<mprev, aissued>>
cvars == <<cpc, cblob, cres>>
rvars == <<rpc, rR, rballot, rheads, rsnap, rshuf, rdig, ri, rout>>
gitvars == <<commits, rmain, rbr, lmain, lbr, ltrack>>
mvars == <<mpc, margs, mgroups, mbatch, mloop, mcur, mrun>>
avars == <<apc, aballot, ai, abranches, areceipts, aunmerged, atry, abranch, abp,
           ahead, acall, asub>>
vars == <<commits, rmain, rbr, lmain, lbr, ltrack, nbr, faults,
          mpc, margs, mgroups, mbatch, mloop, mcur, mrun, quiet,
          apc, aballot, ai, abranches, areceipts, aunmerged, atry, abranch, abp,
          ahead, acall, asub,
          rpc, rR, rballot, rheads, rsnap, rshuf, rdig, ri, rout,
          cpc, cblob, cres,
          mprev, aissued, drv, peer>>

\* ------------------------------------------------------------ helpers
\* a behaviour sees at most MaxFaults command failures and MaxBranches branch
\* names; a branch gets at most one CVR commit, and each commit on main either
\* ends a branch or follows a failure
CanFail == faults < MaxFaults
MaxCommits == 1 + 2 * MaxBranches + MaxFaults

\* a set of refs is a set of <<name, tip>> with one tip per name
Names(refs) == {r[1] : r \in refs}
Tip(refs, b) == (CHOOSE r \in refs : r[1] = b)[2]
Del(refs, b) == {r \in refs : r[1] # b}
Put(refs, b, t) == Del(refs, b) \cup {<<b, t>>}
Remove(s, i) == [j \in 1..(Len(s) - 1) |-> IF j < i THEN s[j] ELSE s[j + 1]]

\* the commits reachable from commit c (git log / git merge-base --is-ancestor)
RECURSIVE Anc(_, _)
Anc(cs, c) == {c} \cup UNION {Anc(cs, cs[c].par[i]) : i \in 1..Len(cs[c].par)}

IsAncestor(cs, a, b) == a \in Anc(cs, b)

\* git diff-tree --no-commit-id -r --name-only <commit>: the files a commit
\* changes against its single parent; nothing for a root commit (no --root)
\* and nothing for a merge commit (no -m / -c).
DiffTreeWithRoot(cs, c) == {"CVRs/contest.json"}
DiffTreeFiles(cs, c) == IF Len(cs[c].par) = 1 THEN {"CVRs/contest.json"} ELSE {}

\* refname order of git branch: CVRs/<uid>/<token>
NameLess(a, b) ==
    LET ia == CHOOSE i \in 1..Len(UidSeq) : UidSeq[i] = a.uid
        ib == CHOOSE i \in 1..Len(UidSeq) : UidSeq[i] = b.uid
    IN  ia < ib \/ (ia = ib /\ a.tok < b.tok)

RECURSIVE SortNames(_)
SortNames(S) ==
    IF S = {} THEN <<>>
    ELSE LET m == CHOOSE x \in S : \A y \in S \ {x} : NameLess(x, y)
         IN  <<m>> \o SortNames(S \ {m})

\* ------------------------------------------------------------ merge-contests
\* the clone a run works in: the server's with --remote, the scanner's without
MergeNode(args) == IF args.remote THEN "server" ELSE "scanner"

\* the refs that 'git branch [-r]' lists in the clone, other than main
ListedRefs(args) ==
    IF args.remote THEN ltrack[MergeNode(args)] ELSE lbr[MergeNode(args)]

\* (a faulty variant of CvrBranches that keeps every line of 'git branch')
CvrBranchesUnfiltered(refs) == SortNames(Names(refs))
\* the lines of 'git branch [-r]' that match ^[origin/]CVRs/([^/]+?)/, in
\* git's refname order
CvrBranches(refs) == SortNames({b \in Names(refs) : b.pfx})

\* (a faulty variant of GroupLoop that forgets the batch left after the loop)
RECURSIVE GroupLoopNoLast(_, _, _, _)
GroupLoopNoLast(brs, i, current_uid, batch) ==
    IF i > Len(brs)
    THEN <<>>
    ELSE IF current_uid = brs[i].uid
         THEN GroupLoopNoLast(brs, i + 1, current_uid, Append(batch, brs[i]))
         ELSE (IF current_uid # "" THEN <<batch>> ELSE <<>>)
              \o GroupLoopNoLast(brs, i + 1, brs[i].uid, <<brs[i]>>)

\* the for loop of run(): the batches handed to randomly_merge_contests, in order
RECURSIVE GroupLoop(_, _, _, _)
GroupLoop(brs, i, current_uid, batch) ==
    IF i > Len(brs)
    THEN IF batch # <<>> THEN <<batch>> ELSE <<>>
    ELSE IF current_uid = brs[i].uid
         THEN GroupLoop(brs, i + 1, current_uid, Append(batch, brs[i]))
         ELSE (IF current_uid # "" THEN <<batch>> ELSE <<>>)
              \o GroupLoop(brs, i + 1, brs[i].uid, <<brs[i]>>)

\* faulty variants of MergeCount, which the properties must tell apart from it
MergeCountUngated(n, k, flush) == n
MergeCountFlushAlways(n, k, flush) == IF n <= k THEN n ELSE n - k
MergeCountOneMore(n, k, flush) ==
    IF n <= k THEN (IF flush THEN n ELSE 0) ELSE n - k + 1
MergeCountNoFlush(n, k, flush) == IF n <= k THEN 0 ELSE n - k
\* randomly_merge_contests: the number of merges to attempt for a batch of n
MergeCount(n, k, flush) ==
    IF n <= k THEN (IF flush THEN n ELSE 0) ELSE n - k

\* git pull: fetch every branch of the remote (nothing is pruned), then
\* fast-forward main; a diverged main cannot be reconciled (both sides rewrite
\* the contest file) and the pull fails
Fetched(n) == {r \in ltrack[n] : r[1] \notin Names(rbr)} \cup rbr
PullOk(n) == IsAncestor(commits, lmain[n], rmain) \/ IsAncestor(commits, rmain, lmain[n])
Pulled(n) == IF IsAncestor(commits, lmain[n], rmain) THEN rmain ELSE lmain[n]

NoRun == [status |-> "none", pool0 |-> [u \in UIDS |-> {}], main0 |-> 0,
          head0 |-> 0,
          rerun |-> FALSE,
          uid |-> "-", count |-> 0, merged |-> 0, ret |-> [u \in UIDS |-> -1],
          done |-> {}, skipped |-> {}, lost |-> {}]

\* run(), lines 160-213: pull, list the CVR branches, group them
MergeStart(k, flush) ==
    /\ mpc = "idle"
    /\ LET args == [margs EXCEPT !.k = k, !.flush = flush]
           n == MergeNode(args)
           tr == [ltrack EXCEPT ![n] = Fetched(n)]
           refs == IF args.remote THEN tr[n] ELSE lbr[n]
           brs == CvrBranches(refs)
           \* the run before this one ended without an exception, had the same
           \* arguments, and nothing was submitted since
           rerun == mrun.status = "ok" /\ margs.k = k /\ margs.flush = flush /\ quiet
       IN  /\ margs' = args
           /\ ltrack' = tr
           /\ quiet' = TRUE
           /\ IF PullOk(n)
              THEN /\ lmain' = [lmain EXCEPT ![n] = Pulled(n)]
                   /\ mgroups' = GroupLoop(brs, 1, "", <<>>)
                   /\ mrun' = [NoRun EXCEPT !.status = "running", !.rerun = rerun,
                                  !.main0 = rmain, !.head0 = Pulled(n),
                                  !.pool0 = [u \in UIDS |->
                                      {brs[i] : i \in {j \in 1..Len(brs) : brs[j].uid = u}}]]
                   /\ mpc' = "run"
              ELSE /\ lmain' = lmain
                   /\ mgroups' = <<>>
                   /\ mrun' = [NoRun EXCEPT !.status = "raised", !.rerun = rerun,
                                  !.main0 = rmain, !.head0 = lmain[n]]
                   /\ mpc' = "idle"
    /\ UNCHANGED <<commits, rmain, rbr, lbr, nbr, faults, mbatch, mloop, mcur>>

\* run(), lines 218-235: hand the next batch to randomly_merge_contests, which
\* sets its loop count (lines 137-148; a count of 0 returns 0)
MergeCallGroup ==
    /\ mpc = "run"
    /\ mgroups # <<>>
    /\ LET batch == Head(mgroups)
       IN  /\ mgroups' = Tail(mgroups)
           /\ mbatch' = batch
           /\ mloop' = MergeCount(Len(batch), margs.k, margs.flush)
           /\ mrun' = [mrun EXCEPT !.uid = batch[1].uid,
                   !.count = MergeCount(Len(batch), margs.k, margs.flush)]
           /\ mpc' = "loop"
    /\ UNCHANGED <<gitvars, nbr, faults, margs, mcur, quiet>>

\* the run ends in an exception
Raised == [mrun EXCEPT !.status = "raised"]

\* git merge --no-ff --no-commit <branch>, whose exit status is not looked at:
\* "uptodate" when the tip is already in main's history, else the merge is
\* left in progress ("merging": a conflict or a clean merge, MERGE_HEAD set)
\* or git refuses to start it ("failed")
MergeOutcomes(cs, head, tip) ==
    IF IsAncestor(cs, tip, head) THEN {"uptodate"} ELSE {"merging", "failed"}

\* the parents git commit gives the commit that follows the merge step
CommitParents(head, tip, outcome) ==
    IF outcome = "merging" THEN <<head, tip>> ELSE <<head>>

\* lines 83-90: the content written to the contest file before git add; an
\* empty openssl output raises instead
WitnessOk(w) == w # 0
\* (the first is a faulty variant that commits what the branch brought in)
MergedCommitKeepsPayload(par, w, branchCommit) ==
    [par |-> par, kind |-> "wit", uid |-> "-", data |-> branchCommit.data]
MergedCommit(par, w, branchCommit) ==
    [par |-> par, kind |-> "wit", uid |-> "-", data |-> <<"witness", w>>]

\* randomly_merge_contests lines 149-152 and merge_contest_branch lines 45-104:
\* pick a branch; diff-tree; nothing to merge skips the branch; else merge,
\* write the witness, add and commit on the local main
MergePick(pick, outcome, w) ==
    /\ mpc = "loop"
    /\ mloop > 0
    /\ pick \in 1..Len(mbatch)
    /\ LET n == MergeNode(margs)
           branch == mbatch[pick]
           tip == Tip(ListedRefs(margs), branch)
           c == Len(commits) + 1
       IN  IF DiffTreeFiles(commits, tip) = {}
           THEN /\ outcome = "uptodate"
                /\ w = c
                /\ mbatch' = Remove(mbatch, pick)
                /\ mloop' = mloop - 1
                /\ mrun' = [mrun EXCEPT !.skipped = @ \cup {branch}]
                /\ UNCHANGED <<commits, lmain, faults, mpc, mcur>>
           ELSE /\ outcome \in MergeOutcomes(commits, lmain[n], tip)
                /\ w \in {0, c}
                /\ (outcome = "failed" \/ w = 0) => CanFail
                /\ faults' = faults + (IF outcome = "failed" \/ w = 0 THEN 1 ELSE 0)
                /\ IF WitnessOk(w)
                   THEN /\ Len(commits) < MaxCommits
                        /\ commits' = Append(commits,
                              MergedCommit(CommitParents(lmain[n], tip, outcome),
                                           w, commits[tip]))
                        /\ lmain' = [lmain EXCEPT ![n] = c]
                        /\ mcur' = branch
                        /\ mpc' = "push"
                        /\ UNCHANGED <<mrun, mbatch, mloop>>
                   ELSE /\ mrun' = Raised
                        /\ mpc' = "idle"
                        /\ UNCHANGED <<commits, lmain, mcur, mbatch, mloop>>
    /\ UNCHANGED <<rmain, rbr, lbr, ltrack, nbr, margs, mgroups, quiet>>

\* merge_contest_branch line 105: git push origin main (check=True)
MergePush(ok) ==
    /\ mpc = "push"
    /\ LET n == MergeNode(margs)
       IN  /\ ok => IsAncestor(commits, rmain, lmain[n])
           /\ ~ok => CanFail
           /\ IF ok
              THEN /\ rmain' = lmain[n]
                   /\ mpc' = "delete"
                   /\ UNCHANGED <<mrun, faults>>
              ELSE /\ mrun' = Raised
                   /\ mpc' = "idle"
                   /\ faults' = faults + 1
                   /\ UNCHANGED rmain
    /\ UNCHANGED <<commits, rbr, lmain, lbr, ltrack, nbr, margs, mgroups,
                   mbatch, mloop, mcur, quiet>>

\* git branch -d <branch>: refused unless the branch is merged into HEAD
BranchDeletable(cs, head, tip) == IsAncestor(cs, tip, head)

\* git push origin -d <name>, lines 109 and 123: the branch leaves the remote
KeepRemote(refs, branch) == refs
DeleteRemote(refs, branch) == Del(refs, branch)
\* git branch -d <branch>, line 115, which only a run without --remote does
DeleteLocal(remote, refs, branch) == IF remote THEN refs ELSE Del(refs, branch)

\* merge_contest_branch lines 106-127: delete the remote branch (and, without
\* --remote, the local one); then randomly_merge_contests lines 154-155
MergeDelete ==
    /\ mpc = "delete"
    /\ LET n == MergeNode(margs)
           tip == Tip(ListedRefs(margs), mcur)
           pick == CHOOSE i \in 1..Len(mbatch) : mbatch[i] = mcur
           lost == IF IsAncestor(commits, tip, rmain) THEN {} ELSE {mcur}
       IN  IF mcur \in Names(rbr)
           THEN /\ rbr' = DeleteRemote(rbr, mcur)
                /\ ltrack' = [ltrack EXCEPT ![n] = Del(@, mcur)]
                /\ IF margs.remote \/ BranchDeletable(commits, lmain[n], tip)
                   THEN /\ lbr' = [lbr EXCEPT ![n] = DeleteLocal(margs.remote, @, mcur)]
                        /\ mbatch' = Remove(mbatch, pick)
                        /\ mloop' = mloop - 1
                        /\ mrun' = [mrun EXCEPT !.done = @ \cup {mcur},
                                                !.lost = @ \cup lost]
                        /\ mpc' = "loop"
                   ELSE /\ mrun' = [Raised EXCEPT !.lost = @ \cup lost]
                        /\ mpc' = "idle"
                        /\ UNCHANGED <<lbr, mbatch, mloop>>
           ELSE /\ mrun' = Raised
                /\ mpc' = "idle"
                /\ UNCHANGED <<rbr, ltrack, lbr, mbatch, mloop>>
    /\ UNCHANGED <<commits, rmain, lmain, nbr, faults, margs, mgroups, mcur,
                   quiet>>

\* randomly_merge_contests lines 156-157 and run() lines 229, 235: return
\* count, which run() adds to merged
MergeReturn ==
    /\ mpc = "loop"
    /\ mloop = 0
    /\ mrun' = [mrun EXCEPT !.merged = @ + mrun.count,
                            !.ret[mrun.uid] = mrun.count]
    /\ mpc' = "run"
    /\ UNCHANGED <<gitvars, nbr, faults, margs, mgroups, mbatch, mloop, mcur,
                   quiet>>

\* run() line 236: the run ends
MergeFinish ==
    /\ mpc = "run"
    /\ mgroups = <<>>
    /\ mrun' = [mrun EXCEPT !.status = "ok"]
    /\ mpc' = "idle"
    /\ UNCHANGED <<gitvars, nbr, faults, margs, mgroups, mbatch, mloop, mcur,
                   quiet>>

\* ------------------------------------------------------------- accept-ballot
Ballots == {<<"A">>, <<"A", "B">>}
S == "scanner"

\* parse_cvr_log: the CVR payloads among the given head commits, by contest
\* uid; a uid that is no key of the mapping has the empty set here
ParseCvrLog(cs, heads) ==
    [u \in UIDS |-> {h \in heads : cs[h].kind = "cvr" /\ cs[h].uid = u}]

\* get_unmerged_contests: git rev-list --no-walk --all without the mains, i.e.
\* the tips of the clone's local branches and remote-tracking refs
GetUnmergedContests(cs, n) ==
    ParseCvrLog(cs, {r[2] : r \in lbr[n] \cup ltrack[n]})

\* get_random_branchpoint: the commits 'git log <branch>' lists
AnyCommit(cs, head) == 1..Len(cs)
Branchpoints(cs, head) == Anc(cs, head)

\* the branch names of checkout_new_contest_branch: line 95-101 for the first
\* attempt, line 141 after a failed one
FirstBranchName(uid, tok) == [pfx |-> TRUE, uid |-> uid, tok |-> tok, gen |-> 1]
\* (RetrySameToken: a faulty variant that keeps the token of the failed try)
RetrySameToken(uid, tok, gen) == [pfx |-> FALSE, uid |-> uid, tok |-> tok, gen |-> 2]
RetryBranchName(uid, tok, gen) == [pfx |-> FALSE, uid |-> uid, tok |-> tok, gen |-> gen]

\* git push origin <branch>: accepted when the remote has no such branch or
\* can fast-forward it
PushAccepted(cs, b, tip) ==
    IF b \in Names(rbr) THEN IsAncestor(cs, Tip(rbr, b), tip) ELSE TRUE

NoCall == [uid |-> "-", names |-> <<>>, okat |-> 0, result |-> "none",
           ret |-> NoBranch, head0 |-> NoBranch, error |-> "none"]
NoSub == [status |-> "none", created |-> {}, committed |-> {}, pushed |-> {},
          receipt |-> "none", demo |-> FALSE, faulty |-> FALSE]

\* the git pull (check=True) that the scanner's driver runs before each ballot
\* is cast and accepted (run_mock_election.py, scanner_mockup)
ScannerPull ==
    /\ apc = "idle"
    /\ PullOk(S)
    /\ ltrack' = [ltrack EXCEPT ![S] = Fetched(S)]
    /\ lmain' = [lmain EXCEPT ![S] = Pulled(S)]
    /\ apc' = "pulled"
    /\ UNCHANGED <<commits, rmain, rbr, lbr, nbr, faults, quiet>>

\* run() lines 398-427: the ballot is verified, the unmerged CVRs are loaded
AcceptBegin(ballot, merge_contests) ==
    /\ apc = "pulled"
    /\ aballot' = ballot
    /\ ai' = 1
    /\ abranches' = <<>>
    /\ areceipts' = [u \in UIDS |-> 0]
    /\ aunmerged' = GetUnmergedContests(commits, S)
    /\ asub' = [NoSub EXCEPT !.status = "running", !.demo = merge_contests]
    /\ quiet' = FALSE
    /\ apc' = "contest"
    /\ atry' = 0
    /\ abranch' = NoBranch
    /\ abp' = 1
    /\ ahead' = NoBranch
    /\ acall' = NoCall
    /\ UNCHANGED <<gitvars, nbr, faults>>

\* a submission of the mock election: merge_contests is off
AcceptStart(ballot) == AcceptBegin(ballot, FALSE)

\* run() line 431 and checkout_new_contest_branch lines 93-108: main is checked
\* out, a branchpoint and the first branch name are chosen
AcceptCheckout(bp) ==
    /\ apc = "contest"
    /\ nbr < MaxBranches
    /\ bp \in Branchpoints(commits, lmain[S])
    /\ abp' = bp
    /\ abranch' = FirstBranchName(aballot[ai], nbr + 1)
    /\ atry' = 0
    /\ ahead' = NoBranch
    /\ acall' = [NoCall EXCEPT !.uid = aballot[ai], !.head0 = NoBranch]
    /\ apc' = "attempt"
    /\ UNCHANGED <<gitvars, nbr, faults, quiet, aballot, ai, abranches, areceipts,
                   aunmerged, asub>>

\* the submission ends in an exception; the changed_branch context puts main back
AcceptRaised == [asub EXCEPT !.status = "raised"]

\* the number of create-then-push attempts (line 110)
MaxAttempts == 3

\* lines 111-137 when the push fails: the branch that git checkout -b made is
\* deleted again with git branch -D (check=True) once current_branch is
\* checked out
NoRollback(refs, branch, bp) == Put(refs, branch, bp)
AfterRollback(refs, branch, bp) == Del(Put(refs, branch, bp), branch)

\* checkout_new_contest_branch lines 110-145: one pass of the loop.  res is
\* what the commands do: "ok", "createfail" (checkout -b fails), "pushfail"
\* (the push is rejected or fails; the local branch is deleted again),
\* "rollbackfail" (the push fails and so does the checkout back).  The failed
\* passes of one call count as one fault.
AcceptAttempt(res) ==
    /\ apc = "attempt"
    /\ res \in {"ok", "createfail", "pushfail", "rollbackfail"}
    /\ res = "ok" => PushAccepted(commits, abranch, abp)
    /\ res # "ok" => (atry > 0 \/ CanFail)
    /\ faults' = faults + (IF res # "ok" /\ atry = 0 THEN 1 ELSE 0)
    /\ acall' = [acall EXCEPT !.names = Append(@, abranch),
                    !.okat = IF res = "ok" THEN atry + 1 ELSE 0,
                    !.ret = IF res = "ok" THEN abranch ELSE NoBranch,
                    !.result = IF res = "ok" THEN "returned"
                               ELSE IF res = "rollbackfail" \/ atry + 1 >= MaxAttempts
                                    THEN "raised" ELSE "none",
                    !.error = IF res = "rollbackfail" THEN "CalledProcessError"
                              ELSE IF res # "ok" /\ atry + 1 >= MaxAttempts
                                   THEN "RuntimeError" ELSE "none"]
    /\ atry' = atry + 1
    /\ IF res = "ok"
       THEN /\ lbr' = [lbr EXCEPT ![S] = Put(@, abranch, abp)]
            /\ rbr' = Put(rbr, abranch, abp)
            /\ ltrack' = [ltrack EXCEPT ![S] = Put(@, abranch, abp)]
            /\ ahead' = abranch
            /\ abranches' = Append(abranches, abranch)
            /\ asub' = [asub EXCEPT !.created = @ \cup {abranch}]
            /\ apc' = "commit"
            /\ nbr' = nbr + 1
            /\ UNCHANGED abranch
       ELSE IF res = "rollbackfail"
       THEN /\ lbr' = [lbr EXCEPT ![S] = Put(@, abranch, abp)]
            /\ asub' = [AcceptRaised EXCEPT !.created = @ \cup {abranch},
                                            !.faulty = TRUE]
            /\ ahead' = NoBranch
            /\ apc' = "idle"
            /\ nbr' = nbr + 1
            /\ UNCHANGED <<rbr, ltrack, abranches, abranch>>
       ELSE /\ abranch' = RetryBranchName(aballot[ai], nbr + 1, atry + 2)
            /\ lbr' = [lbr EXCEPT ![S] = IF res = "pushfail"
                                         THEN AfterRollback(@, abranch, abp)
                                         ELSE @]
            /\ ahead' = acall.head0
            /\ IF atry + 1 >= MaxAttempts
               THEN /\ asub' = [AcceptRaised EXCEPT !.faulty = TRUE]
                    /\ apc' = "idle"
               ELSE /\ asub' = [asub EXCEPT !.faulty = TRUE]
                    /\ UNCHANGED apc
            /\ UNCHANGED <<rbr, ltrack, abranches, nbr>>
    /\ UNCHANGED <<commits, rmain, lmain, quiet, aballot, ai, areceipts,
                   aunmerged, abp>>

\* the commit that 'git commit -F contest.json' makes on the contest's branch
CvrCommit(bp, uid, branch) ==
    [par |-> <<bp>>, kind |-> "cvr", uid |-> uid,
     data |-> <<"contest", branch.tok>>]

\* contest_add_and_commit lines 231-239: the digest that git log -1 prints,
\* the new commit c or, when none was made, the tip the branch had
CommitDigestOfTip(res, c, tip) == tip
CommitDigest(res, c, tip) == IF res = "ok" THEN c ELSE tip

\* run() lines 437-459 and contest_add_and_commit: cast_branch is set, the
\* contest is written, added and committed (exit status not looked at) and the
\* digest is read back with git log -1 (check=True); main is checked out again.
\* res: "ok", "nocommit" (add or commit fails), "logfail" (git log fails)
AcceptCommit(res) ==
    /\ apc = "commit"
    /\ res \in {"ok", "nocommit", "logfail"}
    /\ res # "ok" => CanFail
    /\ faults' = faults + (IF res = "ok" THEN 0 ELSE 1)
    /\ LET uid == aballot[ai]
           c == Len(commits) + 1
           digest == CommitDigest(res, c, Tip(lbr[S], abranch))
       IN  /\ IF res = "ok"
              THEN /\ commits' = Append(commits, CvrCommit(abp, uid, abranch))
                   /\ lbr' = [lbr EXCEPT ![S] = Put(@, abranch, c)]
              ELSE UNCHANGED <<commits, lbr>>
           /\ ahead' = NoBranch
           /\ IF res = "logfail"
              THEN /\ asub' = [AcceptRaised EXCEPT !.faulty = TRUE]
                   /\ apc' = "idle"
                   /\ UNCHANGED <<areceipts, ai>>
              ELSE /\ areceipts' = [areceipts EXCEPT ![uid] = digest]
                   /\ asub' = [asub EXCEPT !.committed =
                                  IF res = "ok" THEN @ \cup {abranch} ELSE @,
                                  !.faulty = @ \/ res # "ok"]
                   /\ IF ai < Len(aballot)
                      THEN /\ ai' = ai + 1
                           /\ apc' = "contest"
                      ELSE /\ ai' = 1
                           /\ apc' = "push"
    /\ UNCHANGED <<rmain, rbr, lmain, ltrack, nbr, quiet, aballot, abranches,
                   aunmerged, atry, abranch, abp, acall>>

\* run() lines 463-475: git push origin <branch>, then git branch -d <branch>
\* (refused unless the branch is merged into its upstream); neither exit
\* status is looked at
AcceptPush(ok) ==
    /\ apc = "push"
    /\ LET branch == abranches[ai]
           tip == Tip(lbr[S], branch)
           track == IF ok THEN Put(ltrack[S], branch, tip) ELSE ltrack[S]
           merged == IF branch \in Names(track)
                     THEN IsAncestor(commits, tip, Tip(track, branch))
                     ELSE IsAncestor(commits, tip, lmain[S])
       IN  /\ ok => PushAccepted(commits, branch, tip)
           /\ ~ok => CanFail
           /\ faults' = faults + (IF ok THEN 0 ELSE 1)
           /\ rbr' = IF ok THEN Put(rbr, branch, tip) ELSE rbr
           /\ ltrack' = [ltrack EXCEPT ![S] = track]
           /\ lbr' = IF merged THEN [lbr EXCEPT ![S] = Del(@, branch)] ELSE lbr
           /\ asub' = [asub EXCEPT !.pushed = IF ok THEN @ \cup {branch} ELSE @,
                                    !.faulty = @ \/ ~ok]
    /\ IF ai < Len(abranches)
       THEN /\ ai' = ai + 1
            /\ apc' = "push"
       ELSE /\ ai' = 1
            /\ apc' = IF asub.demo THEN "demo" ELSE "receipt"
    /\ UNCHANGED <<commits, rmain, lmain, nbr, quiet, aballot, abranches,
                   areceipts, aunmerged, atry, abranch, abp, ahead, acall>>

\* create_ballot_receipt lines 253-271: no receipt unless every uid of
\* contest_receipts has at least BALLOT_RECEIPT_ROWS unmerged CVRs
SkipReceipt(receipts, unmerged) ==
    \E uid \in {u \in UIDS : receipts[u] # 0} :
        \/ unmerged[uid] = {}
        \/ Cardinality(unmerged[uid]) < ReceiptRows

\* run() lines 506-515: the receipt is created and returned
AcceptReceipt ==
    /\ apc = "receipt"
    /\ asub' = [asub EXCEPT !.status = "ok",
                   !.receipt = IF SkipReceipt(areceipts, aunmerged)
                               THEN "degraded" ELSE "full"]
    /\ apc' = "idle"
    /\ UNCHANGED <<gitvars, nbr, faults, quiet, aballot, ai, abranches,
                   areceipts, aunmerged, atry, abranch, abp, ahead, acall>>

\* run() lines 488-504, merge_contests set: for the first branch the call
\* MergeContestsOperation(election_data_dir=..., verbosity=..., printonly=...)
\* meets __init__(self, args) of merge_contests_operation.py line 36 and
\* raises TypeError; the submission ends there
AcceptDemoMerge ==
    /\ apc = "demo"
    /\ asub' = AcceptRaised
    /\ apc' = "idle"
    /\ UNCHANGED <<gitvars, nbr, faults, quiet, aballot, ai, abranches,
                   areceipts, aunmerged, atry, abranch, abp, ahead, acall>>

\* ------------------------------------------- merge-contests with --branch
\* a branch name that no clone and no remote has
NoSuchBranch == [pfx |-> TRUE, uid |-> "A", tok |-> 0, gen |-> 1]

\* run() lines 190-191: the one call of merge_contest_branch
ExplicitCountGated(k, flush) == MergeCount(1, k, flush)
ExplicitCount(k, flush) == 1

\* run() lines 160-191 with args.branch set: pull, then merge_contest_branch
\* of that branch; diff-tree (check=True) raises for a name git does not know
MergeStartBranch(k, flush, branch) ==
    /\ mpc = "idle"
    /\ branch # NoBranch
    /\ LET args == [margs EXCEPT !.k = k, !.flush = flush, !.branch = branch]
           n == MergeNode(args)
           tr == [ltrack EXCEPT ![n] = Fetched(n)]
           refs == IF args.remote THEN tr[n] ELSE lbr[n]
       IN  /\ margs' = args
           /\ ltrack' = tr
           /\ quiet' = TRUE
           /\ mgroups' = <<>>
           /\ IF PullOk(n) /\ branch \in Names(refs)
              THEN /\ lmain' = [lmain EXCEPT ![n] = Pulled(n)]
                   /\ mbatch' = <<branch>>
                   /\ mloop' = ExplicitCount(k, flush)
                   /\ mrun' = [NoRun EXCEPT !.status = "running",
                                  !.main0 = rmain, !.head0 = Pulled(n)]
                   /\ mpc' = "loop"
              ELSE /\ lmain' = [lmain EXCEPT ![n] = IF PullOk(n) THEN Pulled(n) ELSE @]
                   /\ mbatch' = <<>>
                   /\ mloop' = 0
                   /\ mrun' = [NoRun EXCEPT !.status = "raised",
                                  !.main0 = rmain, !.head0 = lmain[n]]
                   /\ mpc' = "idle"
    /\ UNCHANGED <<commits, rmain, rbr, lbr, nbr, faults, mcur>>

\* run() lines 192-193: merge_contest_branch is back, the run returns
MergeBranchReturn ==
    /\ mpc = "loop"
    /\ mloop = 0
    /\ mrun' = [mrun EXCEPT !.status = "ok"]
    /\ mpc' = "idle"
    /\ UNCHANGED <<gitvars, nbr, faults, margs, mgroups, mbatch, mloop, mcur,
                   quiet>>

\* ------------------------------------------------------------ specification
Root == [par |-> <<>>, kind |-> "root", uid |-> "-", data |-> <<"none", 0>>]

\* no merge-contests run has gone before
NoPrev == [status |-> "none", k |-> 0, flush |-> FALSE, skipped |-> {}]

\* the mock election driver is not part of this specification
NoDrv == [pc |-> "off", device |-> "", flush_mode |-> 0, iterations |-> 0,
          ballots |-> 0, count |-> 0, ballot |-> 0, status |-> "none",
          log |-> <<>>]
DriverOff == drv = NoDrv

\* the second scanner when it submits nothing
NoPeer == [pc |-> "idle", uid |-> "-", branch |-> NoBranch, bp |-> 1, try |-> 0,
           got |-> NoBranch, tip |-> 0, kept |-> {}, n |-> 0, lost |-> {}]
PeerOff == peer = NoPeer

InitGit ==
    /\ mprev = NoPrev
    /\ aissued = {}
    /\ commits = <<Root>>
    /\ rmain = 1
    /\ rbr = {}
    /\ lmain = [n \in Nodes |-> 1]
    /\ lbr = [n \in Nodes |-> {}]
    /\ ltrack = [n \in Nodes |-> {}]
    /\ nbr = 0
    /\ faults = 0
    /\ mpc = "idle"
    /\ margs \in [k : {0}, flush : {FALSE}, remote : BOOLEAN, branch : {NoBranch}]
    /\ mgroups = <<>>
    /\ mbatch = <<>>
    /\ mloop = 0
    /\ mcur = NoBranch
    /\ mrun = NoRun
    /\ quiet = FALSE
    /\ apc = "idle"
    /\ aballot = <<>>
    /\ ai = 1
    /\ abranches = <<>>
    /\ areceipts = [u \in UIDS |-> 0]
    /\ aunmerged = [u \in UIDS |-> {}]
    /\ atry = 0
    /\ abranch = NoBranch
    /\ abp = 1
    /\ ahead = NoBranch
    /\ acall = NoCall
    /\ asub = NoSub

Accept ==
    \/ \E ballot \in Ballots : AcceptStart(ballot)
    \/ \E bp \in 1..MaxCommits : AcceptCheckout(bp)
    \/ \E res \in {"ok", "createfail", "pushfail", "rollbackfail"} : AcceptAttempt(res)
    \/ \E res \in {"ok", "nocommit", "logfail"} : AcceptCommit(res)
    \/ \E ok \in BOOLEAN : AcceptPush(ok)
    \/ AcceptReceipt

Merge ==
    \/ MergeCallGroup
    \/ \E pick \in 1..MaxCommits, outcome \in {"uptodate", "merging", "failed"},
          w \in 0..MaxCommits : MergePick(pick, outcome, w)
    \/ \E ok \in BOOLEAN : MergePush(ok)
    \/ MergeDelete
    \/ MergeReturn
    \/ MergeFinish

\* the locals of an operation that is not running
MergeIdle ==
    /\ mpc' = "idle"
    /\ margs' = [margs EXCEPT !.k = 0, !.flush = FALSE, !.branch = NoBranch]
    /\ mgroups' = <<>>
    /\ mbatch' = <<>>
    /\ mloop' = 0
    /\ mcur' = NoBranch
    /\ mrun' = NoRun

AcceptFresh ==
    /\ aballot' = <<>>
    /\ ai' = 1
    /\ abranches' = <<>>
    /\ areceipts' = [u \in UIDS |-> 0]
    /\ aunmerged' = [u \in UIDS |-> {}]
    /\ atry' = 0
    /\ abranch' = NoBranch
    /\ abp' = 1
    /\ ahead' = NoBranch
    /\ acall' = NoCall
    /\ asub' = NoSub

AcceptIdle == apc' = "idle" /\ AcceptFresh

\* the scanner and the merge node take turns: a submission starts when no
\* merge run is under way, and a merge run when no submission is
NextGit ==
    \/ mpc = "idle" /\ MergeIdle /\ AcceptFresh /\ ScannerPull
    \/ Accept /\ UNCHANGED mvars
    \/ mpc = "idle" /\ apc = "idle" /\ AcceptIdle
       /\ \E k \in 0..MaxK, flush \in BOOLEAN : MergeStart(k, flush)
    \/ Merge /\ UNCHANGED avars

\* the receipt stage on its own is not part of this specification
NoReceipt == [header |-> <<>>, rows |-> <<>>, index |-> 0, file |-> "",
              written |-> FALSE]
ReceiptOff ==
    /\ rpc = "off"
    /\ rR = 1
    /\ rballot = <<>>
    /\ rheads = {}
    /\ rsnap = [u \in UIDS |-> <<>>]
    /\ rshuf = [u \in UIDS |-> <<>>]
    /\ rdig = [u \in UIDS |-> 0]
    /\ ri = 1
    /\ rout = NoReceipt

\* no contest blob in hand
NoContest == [k \in {} |-> 0]
NoResult == [call |-> "", status |-> "", name |-> "", contest |-> NoContest]
ContestOff ==
    /\ cpc = "off"
    /\ cblob = [name |-> "", contest |-> NoContest]
    /\ cres = NoResult

Init == InitGit /\ ReceiptOff /\ ContestOff /\ DriverOff /\ PeerOff
Next == NextGit /\ UNCHANGED rvars /\ UNCHANGED cvars /\ UNCHANGED <<hvars, drv, peer>>

Spec == Init /\ [][Next]_vars

\* the same, with the history of the run that went before: what a run leaves
\* behind when it starts right after another one
RunSummary == [status |-> mrun.status, k |-> margs.k, flush |-> margs.flush,
               skipped |-> mrun.skipped]

NextTwoRuns ==
    /\ \/ mpc = "idle" /\ MergeIdle /\ AcceptFresh /\ ScannerPull
          /\ mprev' = NoPrev
       \/ Accept /\ UNCHANGED mvars /\ UNCHANGED mprev
       \/ mpc = "idle" /\ apc = "idle" /\ AcceptIdle
          /\ \E k \in 0..MaxK, flush \in BOOLEAN : MergeStart(k, flush)
          /\ mprev' = RunSummary
       \/ Merge /\ UNCHANGED avars /\ UNCHANGED mprev
    /\ UNCHANGED rvars
    /\ UNCHANGED cvars
    /\ UNCHANGED <<aissued, drv, peer>>

SpecTwoRuns == Init /\ [][NextTwoRuns]_vars

\* a scanner and a server on the same remote, each going at its own pace:
\* the steps of a submission and those of the merge-contests -r runs
\* interleave in any order
IssuedBy(receipts) == {receipts[u] : u \in {v \in UIDS : receipts[v] # 0}}

NextConcurrent ==
    /\ \/ apc = "idle" /\ AcceptFresh /\ ScannerPull
          /\ UNCHANGED <<mvars, aissued>>
       \/ Accept /\ UNCHANGED mvars
          /\ aissued' = IF apc = "receipt"
                         THEN aissued \cup IssuedBy(areceipts) ELSE aissued
       \/ mpc = "idle" /\ margs.remote
          /\ \E k \in 0..MaxK, flush \in BOOLEAN : MergeStart(k, flush)
          /\ UNCHANGED <<avars, aissued>>
       \/ Merge /\ UNCHANGED <<avars, aissued>>
    /\ UNCHANGED rvars
    /\ UNCHANGED cvars
    /\ UNCHANGED <<mprev, drv, peer>>

\* the server of the mock election merges with --remote
InitConcurrent == Init /\ margs.remote

SpecConcurrent == InitConcurrent /\ [][NextConcurrent]_vars

\* ---------------------------------------------- two scanners, one remote
\* A second scanner runs accept-ballot against the same remote, one contest
\* per ballot.  secrets.token_hex(5) may give it any token, the one the first
\* scanner draws included.  Its commands fail only where git refuses them.
MaxPeer == 2

\* run() line 431 and checkout_new_contest_branch lines 93-108 in the second
\* scanner: after its pull, a branchpoint of main and the first branch name
PeerCheckout(uid, tok, bp) ==
    /\ peer.pc = "idle"
    /\ peer.n < MaxPeer
    /\ bp \in Branchpoints(commits, rmain)
    /\ peer' = [peer EXCEPT !.pc = "attempt", !.uid = uid,
                   !.branch = FirstBranchName(uid, tok), !.bp = bp, !.try = 0,
                   !.got = NoBranch, !.tip = 0]
    /\ UNCHANGED gitvars

\* checkout_new_contest_branch lines 110-145 in the second scanner: one pass
\* of the loop.  git checkout -b fails on a name the clone still has; git push
\* -u origin <branch> is refused unless the remote lacks the name or can
\* fast-forward it to the branchpoint; tok is the token of the retry (line 141)
PeerAttempt(tok) ==
    /\ peer.pc = "attempt"
    /\ LET created == peer.branch \notin peer.kept
           pushed == created /\ PushAccepted(commits, peer.branch, peer.bp)
       IN  IF pushed
           THEN /\ rbr' = Put(rbr, peer.branch, peer.bp)
                /\ peer' = [peer EXCEPT !.pc = "commit", !.got = peer.branch,
                               !.try = @ + 1]
           ELSE /\ UNCHANGED rbr
                /\ peer' = IF peer.try + 1 >= MaxAttempts
                           THEN [peer EXCEPT !.pc = "idle", !.try = @ + 1,
                                    !.n = @ + 1]
                           ELSE [peer EXCEPT !.try = @ + 1,
                                    !.branch = RetryBranchName(peer.uid, tok,
                                                               peer.try + 2)]
    /\ UNCHANGED <<commits, rmain, lmain, lbr, ltrack>>

\* run() lines 437-459 in the second scanner: the contest is committed on
\* the branch
PeerCommit ==
    /\ peer.pc = "commit"
    /\ commits' = Append(commits, CvrCommit(peer.bp, peer.uid, peer.branch))
    /\ peer' = [peer EXCEPT !.pc = "push", !.tip = Len(commits) + 1]
    /\ UNCHANGED <<rmain, rbr, lmain, lbr, ltrack>>

\* run() lines 463-475 in the second scanner: git push origin <branch> and
\* git branch -d <branch>, neither exit status looked at; a branch whose push
\* was refused is not merged into its upstream and stays in the clone
PeerPush ==
    /\ peer.pc = "push"
    /\ LET ok == PushAccepted(commits, peer.branch, peer.tip)
       IN  /\ rbr' = IF ok THEN Put(rbr, peer.branch, peer.tip) ELSE rbr
           /\ peer' = [peer EXCEPT !.pc = "idle", !.got = NoBranch,
                          !.n = @ + 1,
                          !.kept = IF ok THEN @ ELSE @ \cup {peer.branch},
                          !.lost = IF ok THEN @ ELSE @ \cup {peer.tip}]
    /\ UNCHANGED <<commits, rmain, lmain, lbr, ltrack>>

Peer ==
    \/ \E uid \in UIDS, tok \in 1..MaxBranches, bp \in 1..MaxCommits :
          PeerCheckout(uid, tok, bp)
    \/ \E tok \in 1..MaxBranches : PeerAttempt(tok)
    \/ PeerCommit
    \/ PeerPush

\* the steps of the two scanners interleave in any order; no merge runs
NextAlloc ==
    /\ \/ apc = "idle" /\ AcceptFresh /\ ScannerPull /\ UNCHANGED peer
       \/ Accept /\ UNCHANGED peer
       \/ Peer /\ UNCHANGED <<avars, nbr, faults, quiet>>
    /\ UNCHANGED mvars
    /\ UNCHANGED rvars
    /\ UNCHANGED cvars
    /\ UNCHANGED <<hvars, drv>>

SpecAlloc == Init /\ [][NextAlloc]_vars

\* submissions with and without merge_contests, and merge-contests runs that
\* are given a branch
AcceptDemo ==
    \/ \E ballot \in Ballots, merge_contests \in BOOLEAN :
          AcceptBegin(ballot, merge_contests)
    \/ \E bp \in 1..MaxCommits : AcceptCheckout(bp)
    \/ \E res \in {"ok", "createfail", "pushfail", "rollbackfail"} : AcceptAttempt(res)
    \/ \E res \in {"ok", "nocommit", "logfail"} : AcceptCommit(res)
    \/ \E ok \in BOOLEAN : AcceptPush(ok)
    \/ AcceptDemoMerge
    \/ AcceptReceipt

MergeBranch ==
    \/ \E pick \in 1..MaxCommits, outcome \in {"uptodate", "merging", "failed"},
          w \in 0..MaxCommits : MergePick(pick, outcome, w)
    \/ \E ok \in BOOLEAN : MergePush(ok)
    \/ MergeDelete
    \/ MergeBranchReturn

\* the names a caller may pass: those of any ref, or one that does not exist
BranchArgs ==
    Names(rbr) \cup UNION {Names(lbr[n]) \cup Names(ltrack[n]) : n \in Nodes}
        \cup {NoSuchBranch}

NextExplicit ==
    /\ \/ mpc = "idle" /\ MergeIdle /\ AcceptFresh /\ ScannerPull
       \/ AcceptDemo /\ UNCHANGED mvars
       \/ mpc = "idle" /\ apc = "idle" /\ AcceptIdle
          /\ \E k \in 0..MaxK, flush \in BOOLEAN, branch \in BranchArgs :
                MergeStartBranch(k, flush, branch)
       \/ MergeBranch /\ UNCHANGED avars
    /\ UNCHANGED rvars
    /\ UNCHANGED cvars
    /\ UNCHANGED <<hvars, drv, peer>>

SpecExplicit == Init /\ [][NextExplicit]_vars

\* ------------------------------------------------------- run_mock_election
\* scanner_mockup and server_mockup: the commands the driver runs, in order.
\* Every command is run with check=True: one that fails ends the driver.
MaxIterations == 10
MaxBlankBallots == 2
\* server_mockup: the rounds after which the day is over at the latest
MaxRounds == 2
\* git gc after every tenth iteration (line 259)
GcEvery == 10
Devices == {"scanner", "server", "both"}
FlushModes == {0, 1, 2}

Cmd(name, flush, remote, ok) ==
    [cmd |-> name, flush |-> flush, remote |-> remote, ok |-> ok]

\* lines 268-285: after the loop, device both merges with -f, whatever
\* flush_mode is, and then tallies
FinalFlushByMode(device, flush_mode) == device = "both" /\ flush_mode \in {1, 2}
FinalFlush(device, flush_mode) == device = "both"

\* the position after the commands of one blank ballot: the next ballot, the
\* next iteration, or what follows the loops (lines 184-185, 268)
AfterBallot(d) ==
    IF d.ballot < d.ballots
    THEN [d EXCEPT !.ballot = @ + 1, !.pc = "pull"]
    ELSE IF d.count + 1 < d.iterations
         THEN [d EXCEPT !.count = @ + 1, !.ballot = 1, !.pc = "pull"]
         ELSE [d EXCEPT !.pc = IF FinalFlush(d.device, d.flush_mode)
                               THEN "final_merge" ELSE "final_gc"]

\* main() lines 425-428 and the head of scanner_mockup or server_mockup
MockStart(device, flush_mode, iterations, ballots) ==
    [NoDrv EXCEPT !.device = device, !.flush_mode = flush_mode,
                  !.iterations = iterations, !.ballots = ballots,
                  !.count = 0, !.ballot = 1, !.status = "running",
                  !.pc = IF device = "server" THEN "s_pull"
                         ELSE IF iterations = 0
                              THEN (IF FinalFlush(device, flush_mode)
                                    THEN "final_merge" ELSE "final_gc")
                              ELSE "pull"]

\* the command at the driver's position, and the position after it
MockCommand(d, ok) ==
    CASE d.pc = "pull" -> Cmd("git pull", FALSE, FALSE, ok)
      [] d.pc = "cast" -> Cmd("cast-ballot", FALSE, FALSE, ok)
      [] d.pc = "accept" -> Cmd("accept-ballot", FALSE, FALSE, ok)
      [] d.pc = "merge" -> Cmd("merge-contests", d.flush_mode = 2, FALSE, ok)
      [] d.pc = "gc" -> Cmd("git gc", FALSE, FALSE, ok)
      [] d.pc = "final_merge" -> Cmd("merge-contests", TRUE, FALSE, ok)
      [] d.pc = "tally" -> Cmd("tally-contests", FALSE, FALSE, ok)
      [] d.pc = "final_gc" -> Cmd("git gc", FALSE, FALSE, ok)
      [] d.pc = "s_pull" -> Cmd("git pull", FALSE, TRUE, ok)
      [] d.pc = "s_merge" -> Cmd("merge-contests", d.flush_mode = 2, TRUE, ok)
      [] d.pc = "s_return" -> Cmd("tally-contests", FALSE, TRUE, ok)
      [] d.pc = "s_flush" -> Cmd("merge-contests", TRUE, TRUE, ok)
      [] d.pc = "s_tally" -> Cmd("tally-contests", FALSE, TRUE, ok)

\* scanner_mockup lines 184-293: one command of the scanner's driver
ScannerMockup(ok) ==
    /\ drv.pc \in {"pull", "cast", "accept", "merge", "gc", "final_merge",
                    "tally", "final_gc"}
    /\ LET d == [drv EXCEPT !.log = Append(@, MockCommand(drv, ok))]
       IN  drv' =
             IF ~ok THEN [d EXCEPT !.pc = "end", !.status = "raised"]
             ELSE CASE drv.pc = "pull" -> [d EXCEPT !.pc = "cast"]
                    [] drv.pc = "cast" -> [d EXCEPT !.pc = "accept"]
                    [] drv.pc = "accept" ->
                          IF drv.device = "both" THEN [d EXCEPT !.pc = "merge"]
                          ELSE AfterBallot(d)
                    [] drv.pc = "merge" ->
                          IF drv.count % GcEvery = GcEvery - 1
                          THEN [d EXCEPT !.pc = "gc"] ELSE AfterBallot(d)
                    [] drv.pc = "gc" -> AfterBallot(d)
                    [] drv.pc = "final_merge" -> [d EXCEPT !.pc = "tally"]
                    [] drv.pc = "tally" -> [d EXCEPT !.pc = "final_gc"]
                    [] drv.pc = "final_gc" -> [d EXCEPT !.pc = "end", !.status = "done"]

\* server_mockup lines 297-367: one command of the server's driver; the day
\* is over (line 348) after any round, and after MaxRounds at the latest
ServerMockup(ok, over) ==
    /\ drv.pc \in {"s_pull", "s_merge", "s_return", "s_flush", "s_tally"}
    /\ over \/ drv.count + 1 < MaxRounds
    /\ LET d == [drv EXCEPT !.log = Append(@, MockCommand(drv, ok))]
       IN  drv' =
             IF ~ok THEN [d EXCEPT !.pc = "end", !.status = "raised"]
             ELSE CASE drv.pc = "s_pull" -> [d EXCEPT !.pc = "s_merge"]
                    [] drv.pc = "s_merge" ->
                          IF drv.flush_mode = 2 THEN [d EXCEPT !.pc = "s_return"]
                          ELSE IF ~over THEN [d EXCEPT !.pc = "s_pull", !.count = @ + 1]
                          ELSE IF drv.flush_mode \in {1, 2}
                               THEN [d EXCEPT !.pc = "s_flush"]
                               ELSE [d EXCEPT !.pc = "s_tally"]
                    [] drv.pc = "s_return" -> [d EXCEPT !.pc = "end", !.status = "done"]
                    [] drv.pc = "s_flush" -> [d EXCEPT !.pc = "s_tally"]
                    [] drv.pc = "s_tally" -> [d EXCEPT !.pc = "end", !.status = "done"]

\* any device, flush_mode, number of iterations and number of blank ballots
InitMock ==
    /\ InitGit
    /\ PeerOff
    /\ ReceiptOff
    /\ ContestOff
    /\ \E device \in Devices, flush_mode \in FlushModes,
          iterations \in 0..MaxIterations, ballots \in 1..MaxBlankBallots :
          drv = MockStart(device, flush_mode, iterations, ballots)

NextMock ==
    /\ \/ \E ok \in BOOLEAN : ScannerMockup(ok)
       \/ \E ok \in BOOLEAN, over \in BOOLEAN : ServerMockup(ok, over)
    /\ UNCHANGED <<gitvars, nbr, faults, mvars, quiet, avars, rvars, cvars, hvars, peer>>

SpecMock == InitMock /\ [][NextMock]_vars

\* ------------------------------------------------------------ properties
Min(a, b) == IF a < b THEN a ELSE b

\* the pending CVR branches of a uid, where the run looks for them: on the
\* remote with --remote, among the clone's local branches without
PendingRefs == IF margs.remote THEN rbr ELSE lbr[MergeNode(margs)]
Pending(u) == {b \in Names(PendingRefs) : b.pfx /\ b.uid = u}

\* the branches of uid u that the run merge_contest_branch'ed to the end
Merged(u) == mrun.done \cap mrun.pool0[u]
Skipped(u) == mrun.skipped \cap mrun.pool0[u]

\* a run is under way or was the last thing that happened
RunSeen == mrun.status # "none"
\* randomly_merge_contests has returned for the group of uid u
Returned(u) == RunSeen /\ mrun.ret[u] >= 0

\* the commits of main: the first-parent chain of its head
RECURSIVE MainChain(_, _)
MainChain(cs, c) ==
    IF cs[c].par = <<>> THEN {c} ELSE {c} \cup MainChain(cs, cs[c].par[1])

\* C1: in a run without flush, every uid keeps at least min(initial count, k)
\* pending branches in every state during and after the run, and a branch is
\* only being merged while its uid's group holds more than k branches.
C1_KAnonymityGate ==
    (RunSeen /\ ~margs.flush) =>
        /\ \A u \in UIDS :
              Cardinality(Pending(u)) >= Min(Cardinality(mrun.pool0[u]), margs.k)
        /\ mpc \in {"push", "delete"} =>
              Cardinality(Pending(mcur.uid)) > margs.k

C1_Witness ==
    /\ mpc = "delete"
    /\ ~margs.flush
    /\ margs.k >= 1
    /\ Cardinality(mrun.pool0[mcur.uid]) > margs.k

\* C2: randomly_merge_contests, entered without flush for a group of n <= k
\* branches, returns 0 at once: its next step is the return, the count added
\* to merged is 0, and no ref and no commit changes.
C2_BelowThreshold ==
    [][(/\ mpc = "loop"
        /\ ~margs.flush
        /\ Len(mbatch) = Cardinality(mrun.pool0[mrun.uid])
        /\ Len(mbatch) <= margs.k)
       => (/\ mpc' = "run"
           /\ mrun'.ret[mrun.uid] = 0
           /\ mrun'.merged = mrun.merged
           /\ UNCHANGED gitvars)]_vars

C2_Witness ==
    /\ mpc = "run"
    /\ ~margs.flush
    /\ \E u \in UIDS :
          /\ mrun.pool0[u] # {}
          /\ Cardinality(mrun.pool0[u]) <= margs.k
          /\ mrun.ret[u] = 0
          /\ Pending(u) = mrun.pool0[u]

C4_FlushMergesAll ==
    \A u \in UIDS :
        (Returned(u) /\ margs.flush /\ faults = 0) =>
            /\ Merged(u) = mrun.pool0[u]
            /\ Pending(u) = {}

\* C5 as stated: a run that follows a run with the same arguments that ended
\* without an exception, with nothing submitted in between and no command
\* failure so far, merges no branch and leaves main where it was.
C5_SecondRunIdle ==
    (RunSeen /\ mrun.rerun /\ faults = 0) =>
        /\ mpc \notin {"push", "delete"}
        /\ mrun.done = {}
        /\ rmain = mrun.main0
        /\ \A u \in UIDS : mpc # "loop" => Pending(u) = mrun.pool0[u]

\* C6 as stated: the tip of every branch that merge_contest_branch has
\* deleted is reachable from the remote main.
C6_AncestryPreserved == mrun.lost = {}

\* C7: every commit of main other than the root was made by
\* merge_contest_branch, and every commit it made holds a non-empty witness
\* that no other commit holds, never the payload of the merged branch.
C7_WitnessReplacement ==
    /\ \A c \in MainChain(commits, rmain) \ {1} : commits[c].kind = "wit"
    /\ \A c \in 1..Len(commits) :
          commits[c].kind = "wit" =>
              /\ commits[c].data[1] = "witness"
              /\ WitnessOk(commits[c].data[2])
              /\ \A d \in 1..Len(commits) :
                    d # c => commits[d].data # commits[c].data

C7_Witness ==
    /\ rmain # 1
    /\ Len(commits[rmain].par) = 2
    /\ commits[commits[rmain].par[2]].kind = "cvr"

\* the branches of the ballot in hand, as a set
BallotBranches == {abranches[i] : i \in 1..Len(abranches)}

\* C8 as stated: when a submission has returned a receipt with rows, every contest
\* branch of the ballot is on the remote and its tip there is the commit that
\* holds the contest's payload, the digest recorded for the contest.
C8_ReceiptOnlyWhenPushed ==
    (asub.status = "ok" /\ asub.receipt = "full") =>
        \A i \in 1..Len(abranches) :
            /\ abranches[i] \in Names(rbr)
            /\ commits[Tip(rbr, abranches[i])].kind = "cvr"
            /\ Tip(rbr, abranches[i]) = areceipts[aballot[i]]

\* C9 as stated: when a submission has ended in an exception, none of the
\* local branches created for its ballot exists any more.
C9_RollbackOnFailure ==
    asub.status = "raised" =>
        \A b \in asub.created : b \notin Names(lbr[S])

\* C10: a call of checkout_new_contest_branch makes at most MaxAttempts
\* attempts, each under a name not tried before in the call; it returns only
\* from an attempt whose create and push both succeeded, with the name of
\* that attempt, which then exists locally and on the remote; it has raised
\* once MaxAttempts attempts have failed.
C10_AllocationRetry ==
    LET n == Len(acall.names)
    IN  /\ n <= MaxAttempts
        /\ n = atry
        /\ \A i, j \in 1..n : i # j => acall.names[i] # acall.names[j]
        /\ acall.result = "returned" =>
              /\ acall.okat = n
              /\ acall.ret = acall.names[n]
              /\ apc = "commit" =>
                    /\ acall.ret \in Names(lbr[S])
                    /\ acall.ret \in Names(rbr)
        /\ acall.result # "returned" => acall.okat = 0
        /\ (n = MaxAttempts /\ acall.okat = 0) => acall.result = "raised"
        /\ (acall.result = "none" /\ n > 0) => apc = "attempt"

C10_Witness ==
    /\ acall.result = "returned"
    /\ acall.okat = MaxAttempts
    /\ apc = "commit"

\* C11 as stated: every name that checkout_new_contest_branch has tried in a
\* call, and the one it is about to try, lies under CONTEST_FILE_SUBDIR and
\* is of the contest's uid.
C11_BranchNameForm ==
    /\ \A i \in 1..Len(acall.names) :
          acall.names[i].pfx /\ acall.names[i].uid = acall.uid
    /\ apc = "attempt" => abranch.pfx /\ abranch.uid = acall.uid

\* C12 as stated: when a submission has returned, contest_receipts has an
\* entry for exactly the uids of the ballot, and the entry of each contest is
\* the commit that holds that contest's payload, made on that contest's
\* branch.
C12_ReceiptDigests ==
    asub.status = "ok" =>
        /\ {u \in UIDS : areceipts[u] # 0} = {aballot[i] : i \in 1..Len(aballot)}
        /\ \A i \in 1..Len(aballot) :
              LET d == areceipts[aballot[i]]
              IN  /\ commits[d].kind = "cvr"
                  /\ commits[d].uid = aballot[i]
                  /\ commits[d].data = <<"contest", abranches[i].tok>>

\* ------------------------------------------------------------- the receipt
\* The receipt stage of a submission on its own: the pool snapshot, the
\* contest commits, the git pull of the demo-mode merge, and
\* create_ballot_receipt, for any contents of the pool.
\* Digests stands for the CVR commits that exist before the submission,
\* MaxRows + 1 of each contest; NonCvr for a commit that is no CVR
NonCvr == 0
Digests == 1..(2 * (MaxRows + 1))
\* the digest of the commit made for the i-th contest of the ballot
NewDigest(i) == 2 * (MaxRows + 1) + i
\* the uid in the payload of a commit
CvrUid(d) ==
    IF d = NonCvr THEN "-"
    ELSE IF d > 2 * (MaxRows + 1) THEN UidSeq[d - 2 * (MaxRows + 1)]
    ELSE IF d <= MaxRows + 1 THEN UidSeq[1] ELSE UidSeq[2]
\* the cell that stands for a missing digest (line 311)
INSUFFICIENT_CVRS == -1
\* a list index out of range
IndexError == -2

Range(seq) == {seq[i] : i \in 1..Len(seq)}

\* the digests of a set of heads in the order git log prints them
RECURSIVE LogOrder(_)
LogOrder(D) ==
    IF D = {} THEN <<>>
    ELSE LET m == CHOOSE x \in D : \A y \in D : y <= x
         IN  <<m>> \o LogOrder(D \ {m})

\* parse_cvr_log over the head commits of get_unmerged_contests: one entry
\* per CVR commit, by contest uid, in git log order
ParseHeads(heads) == [u \in UIDS |-> LogOrder({h \in heads : CvrUid(h) = u})]

\* random.shuffle: the orders a list can be left in
Shuffles(seq) ==
    {p \in [1..Len(seq) -> Range(seq)] : \A i, j \in 1..Len(seq) : i # j => p[i] # p[j]}

\* random.randint(1, BALLOT_RECEIPT_ROWS)
VotersRows(R) == 1..R

\* create_ballot_receipt lines 253-271 over the lists of unmerged_cvrs: no
\* receipt when a uid of contest_receipts is no key or has fewer than R CVRs
SkipReceiptNever(R, uids, pool) == FALSE
SkipReceiptRows(R, uids, pool) ==
    \E i \in 1..Len(uids) : pool[uids[i]] = <<>> \/ Len(pool[uids[i]]) < R

\* lines 306-326: the cell of one uid in a row that is not the voter's; row
\* counts from 0, pool is unmerged_cvrs[uid] (<<>>: uid is no key)
ReceiptCellNoSwap(pool, digest, row, voters_row) ==
    IF pool = <<>> THEN INSUFFICIENT_CVRS
    ELSE IF row > Len(pool) THEN INSUFFICIENT_CVRS
    ELSE IF row = Len(pool) THEN IndexError
    ELSE pool[row + 1]
\* (two more faulty variants: one takes a pool of exactly row + 1 entries for
\* too shallow, the other replaces the voter's own digest by the first entry)
ReceiptCellShallow(pool, digest, row, voters_row) ==
    IF pool = <<>> THEN INSUFFICIENT_CVRS
    ELSE IF row + 1 >= Len(pool) THEN INSUFFICIENT_CVRS
    ELSE IF digest = pool[row + 1] THEN pool[voters_row]
    ELSE pool[row + 1]
ReceiptCellSwapFirst(pool, digest, row, voters_row) ==
    IF pool = <<>> THEN INSUFFICIENT_CVRS
    ELSE IF row > Len(pool) THEN INSUFFICIENT_CVRS
    ELSE IF row = Len(pool) THEN IndexError
    ELSE IF digest = pool[row + 1] THEN pool[1]
    ELSE pool[row + 1]
ReceiptCell(pool, digest, row, voters_row) ==
    IF pool = <<>> THEN INSUFFICIENT_CVRS
    ELSE IF row > Len(pool) THEN INSUFFICIENT_CVRS
    ELSE IF row = Len(pool) THEN IndexError
    ELSE IF digest = pool[row + 1]
         THEN IF voters_row - 1 > Len(pool) THEN INSUFFICIENT_CVRS
              ELSE IF voters_row - 1 = Len(pool) THEN IndexError
              ELSE pool[voters_row]
         ELSE pool[row + 1]

\* line 304: the values of contest_receipts, in the order of its keys
VotersRow(uids, receipts) == [i \in 1..Len(uids) |-> receipts[uids[i]]]

\* inner_loop, lines 298-328: the R data rows
InnerLoopNoVotersRow(R, uids, receipts, pool, voters_row) ==
    [r \in 1..R |->
        [i \in 1..Len(uids) |->
            ReceiptCell(pool[uids[i]], receipts[uids[i]], r - 1, voters_row)]]
InnerLoopRowAfter(R, uids, receipts, pool, voters_row) ==
    [r \in 1..R |->
        IF r - 1 = voters_row
        THEN VotersRow(uids, receipts)
        ELSE [i \in 1..Len(uids) |->
                ReceiptCell(pool[uids[i]], receipts[uids[i]], r - 1, voters_row)]]
InnerLoop(R, uids, receipts, pool, voters_row) ==
    [r \in 1..R |->
        IF r - 1 = voters_row - 1
        THEN VotersRow(uids, receipts)
        ELSE [i \in 1..Len(uids) |->
                ReceiptCell(pool[uids[i]], receipts[uids[i]], r - 1, voters_row)]]

\* redacted_uids after inner_loop (lines 309-317): the uids for which a row
\* other than the voter's got the INSUFFICIENT_CVRS cell
RedactedUids(R, uids, receipts, pool, voters_row) ==
    {uids[i] : i \in {j \in 1..Len(uids) :
        \E r \in 1..R :
            /\ r # voters_row
            /\ ReceiptCell(pool[uids[j]], receipts[uids[j]], r - 1, voters_row)
                  = INSUFFICIENT_CVRS}}

\* create_ballot_receipt: the header, the data rows, the voter's row and the
\* file written; nothing at all when the receipt is skipped
CreateBallotReceipt(R, uids, receipts, pool, voters_row) ==
    IF SkipReceiptRows(R, uids, pool)
    THEN NoReceipt
    ELSE [header |-> uids,
          rows |-> InnerLoop(R, uids, receipts, pool, voters_row),
          index |-> voters_row,
          file |-> "receipt.csv",
          written |-> TRUE]

\* the pool that run() hands to create_ballot_receipt (line 507): the one
\* loaded at line 427, whatever the clone holds by then
RefreshedPool(snap, heads) == ParseHeads(heads)
UnmergedAtReceipt(snap, heads) == snap

\* run() line 427: unmerged_cvrs is loaded
ReceiptSnapshot ==
    /\ rpc = "snapshot"
    /\ rsnap' = ParseHeads(rheads)
    /\ rpc' = "commit"
    /\ UNCHANGED <<rR, rballot, rheads, rshuf, rdig, ri, rout>>

\* run() lines 429-459: the contest in hand gets its branch and its commit,
\* whose digest goes to contest_receipts; when the commit did not happen the
\* digest is that of the branchpoint, a commit that existed before
ReceiptCommit(d) ==
    /\ rpc = "commit"
    /\ d \in Digests \cup {NonCvr, NewDigest(ri)}
    /\ rdig' = [rdig EXCEPT ![rballot[ri]] = d]
    /\ rheads' = rheads \cup {d}
    /\ IF ri < Len(rballot)
       THEN ri' = ri + 1 /\ rpc' = "commit"
       ELSE ri' = 1 /\ rpc' = "receipt"
    /\ UNCHANGED <<rR, rballot, rsnap, rshuf, rout>>

\* the heads that reached the clone after the contest commits
FetchedHeads ==
    rheads \ (UNION {Range(rsnap[u]) : u \in UIDS}
                 \cup {rdig[rballot[i]] : i \in 1..Len(rballot)})

\* run() lines 488-504 (demo mode): the git pull of the merge run brings the
\* branch of another scanner into the clone
ReceiptFetch(d) ==
    /\ rpc = "receipt"
    /\ FetchedHeads = {}
    /\ d \in Digests \ rheads
    /\ rheads' = rheads \cup {d}
    /\ UNCHANGED <<rpc, rR, rballot, rsnap, rshuf, rdig, ri, rout>>

\* random.shuffle of line 267 over the lists of the ballot's uids
ShuffledList(uids, pool, u) ==
    IF u \in Range(uids) THEN Shuffles(pool[u]) ELSE {pool[u]}

\* run() lines 506-515 and create_ballot_receipt: the lists of the ballot's
\* uids are shuffled, voters_row is drawn, the receipt is built
ReceiptBuild ==
    /\ rpc = "receipt"
    /\ LET unmerged_cvrs == UnmergedAtReceipt(rsnap, rheads)
       IN  \E pa \in ShuffledList(rballot, unmerged_cvrs, UidSeq[1]),
              pb \in ShuffledList(rballot, unmerged_cvrs, UidSeq[2]),
              voters_row \in VotersRows(rR) :
                LET shuffled == [u \in UIDS |-> IF u = UidSeq[1] THEN pa ELSE pb]
                IN  /\ rshuf' = shuffled
                    /\ rout' = CreateBallotReceipt(rR, rballot, rdig, shuffled,
                                                   voters_row)
    /\ rpc' = "done"
    /\ UNCHANGED <<rR, rballot, rheads, rsnap, rdig, ri>>

\* any ballot, any R and any heads in the clone
InitReceipt ==
    /\ InitGit
    /\ rpc = "snapshot"
    /\ rR \in 1..MaxRows
    /\ rballot \in Ballots
    /\ rheads \in SUBSET Digests
    /\ rsnap = [u \in UIDS |-> <<>>]
    /\ rshuf = [u \in UIDS |-> <<>>]
    /\ rdig = [u \in UIDS |-> NonCvr]
    /\ ri = 1
    /\ rout = NoReceipt
    /\ ContestOff
    /\ DriverOff
    /\ PeerOff

NextReceipt ==
    /\ \/ ReceiptSnapshot
       \/ \E d \in Digests \cup {NonCvr, NewDigest(1), NewDigest(2)} : ReceiptCommit(d)
       \/ \E d \in Digests : ReceiptFetch(d)
       \/ ReceiptBuild
    /\ UNCHANGED <<gitvars, nbr, faults, mvars, quiet, avars, cvars, hvars, drv, peer>>

SpecReceipt == InitReceipt /\ [][NextReceipt]_vars

\* ------------------------------------------------------------- Contest
\* bin/contest.py: check_syntax and the constructor, for any blob
MaxMax == 2
MaxValues == (0 - 1)..MaxMax
ContestNames == {"mayor", "question 1"}
Tallies == {"plurality", "rcv"}
\* Contest._keys, lines 27-28
ContestKeys == {"candidates", "question", "tally", "win-by", "max", "write-in",
                "selection"}
\* the keys a contest carries once it is cast, and a key nobody knows
CastKeys == {"uid", "cast_branch", "cloak"}
BlobKeys == ContestKeys \cup CastKeys \cup {"colour"}

\* line 39: key not in Contest._keys
KeyAny(key) == TRUE
KeyOk(key) == key \in ContestKeys

\* line 54: self.contest['max'] < 1
MaxBelowZero(max) == max < 0
MaxIllegal(max) == max < 1

\* check_syntax, lines 30-41
CheckSyntax(blob) ==
    IF \E key \in DOMAIN blob.contest : ~KeyOk(key)
    THEN [call |-> "check_syntax", status |-> "KeyError", name |-> "",
          contest |-> NoContest]
    ELSE [call |-> "check_syntax", status |-> "ok", name |-> blob.name,
          contest |-> NoContest]

\* lines 50-52: the default of max
SetDefaults(contest) ==
    IF "max" \in DOMAIN contest THEN contest
    ELSE IF contest["tally"] = "plurality"
         THEN [k \in DOMAIN contest \cup {"max"} |->
                  IF k = "max" THEN 1 ELSE contest[k]]
         ELSE contest

\* Contest.__init__, lines 43-56; reading the tally of a contest that has
\* none is a KeyError
ContestInit(blob) ==
    LET checked == CheckSyntax(blob)
    IN  IF checked.status # "ok"
        THEN [checked EXCEPT !.call = "Contest"]
        ELSE IF "max" \notin DOMAIN blob.contest /\ "tally" \notin DOMAIN blob.contest
        THEN [call |-> "Contest", status |-> "KeyError", name |-> "",
              contest |-> NoContest]
        ELSE LET contest == SetDefaults(blob.contest)
             IN  IF "max" \in DOMAIN contest /\ MaxIllegal(contest["max"])
                 THEN [call |-> "Contest", status |-> "ValueError", name |-> "",
                       contest |-> NoContest]
                 ELSE [call |-> "Contest", status |-> "ok", name |-> checked.name,
                       contest |-> contest]

\* a call of the static method
CallCheckSyntax ==
    /\ cpc = "blob"
    /\ cres' = CheckSyntax(cblob)
    /\ cpc' = "done"
    /\ UNCHANGED cblob

\* a call of the constructor
CallContest ==
    /\ cpc = "blob"
    /\ cres' = ContestInit(cblob)
    /\ cpc' = "done"
    /\ UNCHANGED cblob

\* any blob of one contest name over the keys of BlobKeys
InitContest ==
    /\ InitGit
    /\ ReceiptOff
    /\ DriverOff
    /\ PeerOff
    /\ cpc = "blob"
    /\ \E name \in ContestNames, keys \in SUBSET BlobKeys,
          max \in MaxValues, tally \in Tallies :
          cblob = [name |-> name,
                   contest |-> [k \in keys |->
                                   IF k = "max" THEN max
                                   ELSE IF k = "tally" THEN tally ELSE 0]]
    /\ cres = NoResult

NextContest ==
    /\ CallCheckSyntax \/ CallContest
    /\ UNCHANGED <<gitvars, nbr, faults, mvars, quiet, avars, rvars, hvars, drv, peer>>

SpecContest == InitContest /\ [][NextContest]_vars

\* ------------------------------------------------- properties of the receipt
\* contest_receipts.values(): the voter's digests in column order
VotersDigests == [i \in 1..Len(rballot) |-> rdig[rballot[i]]]
\* a uid of the ballot has fewer than R entries in the snapshot
PoolDegraded == \E i \in 1..Len(rballot) : Len(rsnap[rballot[i]]) < rR
\* the voter's digest of some contest is itself in the snapshot
VoterInPool == \E i \in 1..Len(rballot) : rdig[rballot[i]] \in Range(rsnap[rballot[i]])

\* C13: a receipt built from a non-degraded pool has exactly one data row
\* equal to the voter's digests in every column, and every other row differs
\* from the voter's digests in at least one column.
C13_OneVotersRow ==
    (rpc = "done" /\ ~PoolDegraded) =>
        /\ Cardinality({r \in 1..Len(rout.rows) : rout.rows[r] = VotersDigests}) = 1
        /\ \A r \in 1..Len(rout.rows) :
              r # rout.index =>
                  \E i \in 1..Len(rballot) : rout.rows[r][i] # VotersDigests[i]
C13_Witness ==
    /\ rpc = "done" /\ ~PoolDegraded /\ rout.written
    /\ rR >= 2 /\ Len(rballot) = 2 /\ VoterInPool

\* C14: no cell outside the voter's row holds the voter's digest of its
\* column, whatever the pool and wherever the voter's row is.
C14_NoVotersDigestElsewhere ==
    (rpc = "done" /\ rout.written) =>
        \A r \in 1..Len(rout.rows), i \in 1..Len(rballot) :
            r # rout.index => rout.rows[r][i] # VotersDigests[i]
\* the voter's digest sits in a row of the shuffled pool that is not the
\* voter's, so that the cell had to be taken from elsewhere
C14_Witness ==
    /\ rpc = "done" /\ rout.written
    /\ \E r \in 1..rR, i \in 1..Len(rballot) :
          /\ r # rout.index
          /\ rshuf[rballot[i]][r] = VotersDigests[i]
          /\ rout.rows[r][i] = rshuf[rballot[i]][rout.index]

\* C15: every digest on a non-voter row, in the column of uid u, is a digest
\* of the snapshot of u loaded before the ballot's branches were created; the
\* list that the receipt is built from is that snapshot, not a later reading
\* of the clone.
C15_RowsFromSnapshot ==
    /\ \A u \in UIDS : \A i \in 1..Len(rballot) : NewDigest(i) \notin Range(rsnap[u])
    /\ rpc = "done" =>
          /\ \A u \in UIDS : Range(rshuf[u]) = Range(rsnap[u])
          /\ \A r \in 1..Len(rout.rows), i \in 1..Len(rballot) :
                r # rout.index => rout.rows[r][i] \in Range(rsnap[rballot[i]])
\* a receipt with non-voter rows, built after the clone got heads that the
\* snapshot does not have: the ballot's own commits and a fetched branch
C15_Witness ==
    /\ rpc = "done" /\ rout.written /\ rR >= 2
    /\ FetchedHeads # {}
    /\ \A i \in 1..Len(rballot) : rdig[rballot[i]] = NewDigest(i)

\* C16: when a uid of the ballot is missing from the snapshot or has fewer
\* than R entries there, create_ballot_receipt returns no rows, row 0 and an
\* empty path and writes no file, and the submission goes on to its end.
C16_DegradedReceipt ==
    /\ (rpc = "receipt" /\ PoolDegraded) => ENABLED ReceiptBuild
    /\ (rpc = "done" /\ PoolDegraded) =>
          /\ rout.rows = <<>> /\ rout.header = <<>>
          /\ rout.index = 0
          /\ rout.file = ""
          /\ ~rout.written
\* a two-contest ballot whose first uid has R entries or more and whose
\* second has some, but fewer than R
C16_Witness ==
    /\ rpc = "done" /\ rout = NoReceipt /\ rR >= 2
    /\ Len(rballot) = 2
    /\ Len(rsnap[rballot[1]]) >= rR
    /\ Len(rsnap[rballot[2]]) > 0 /\ Len(rsnap[rballot[2]]) < rR

\* C17: a receipt built from a non-degraded pool is a header with one column
\* per contest in the ballot's order and exactly R data rows of one cell per
\* contest; the returned voters_row v has 1 <= v <= R and data row v is the
\* voter's digests in column order.
C17_ReceiptShape ==
    (rpc = "done" /\ ~PoolDegraded) =>
        /\ rout.written
        /\ rout.header = rballot
        /\ Len(rout.rows) = rR
        /\ \A r \in 1..Len(rout.rows) :
              /\ Len(rout.rows[r]) = Len(rballot)
              /\ \A i \in 1..Len(rballot) : rout.rows[r][i] # IndexError
        /\ rout.index \in 1..rR
        /\ rout.rows[rout.index] = VotersDigests
\* two contests, two rows, and the voter's row is the last one
C17_Witness ==
    /\ rpc = "done" /\ rout.written
    /\ rR >= 2 /\ Len(rballot) = 2
    /\ rout.index = rR
    /\ rdig[rballot[1]] # rdig[rballot[2]]

\* ------------------------------------------------- properties of Contest
\* the keys of the contest schema
ApprovedKeys == ContestKeys \cup CastKeys

\* C18: a blob with a key outside the approved key set makes check_syntax,
\* and with it the constructor, fail; no Contest comes to exist.
C18_UnknownKeyRejected ==
    (cpc = "done" /\ \E k \in DOMAIN cblob.contest : k \notin ApprovedKeys) =>
        /\ cres.status = "KeyError"
        /\ cres.name = ""
        /\ DOMAIN cres.contest = {}
\* the constructor met a blob whose only fault is the unknown key
C18_Witness ==
    /\ cpc = "done" /\ cres.call = "Contest" /\ cres.status = "KeyError"
    /\ DOMAIN cblob.contest = {"candidates", "tally", "max", "colour"}
    /\ cblob.contest["max"] = 1

\* C19: check_syntax accepts every blob whose keys are all among candidates,
\* question, tally, win-by, max, write-in, selection, uid, cast_branch and
\* cloak, and returns the contest name.
C19_ApprovedKeysAccepted ==
    (cpc = "done" /\ cres.call = "check_syntax"
        /\ DOMAIN cblob.contest \subseteq ApprovedKeys) =>
        /\ cres.status = "ok"
        /\ cres.name = cblob.name

\* C20: the constructor fails for every blob whose max is below 1, and a
\* Contest that carries a max has max >= 1.
C20_MaxAtLeastOne ==
    (cpc = "done" /\ cres.call = "Contest") =>
        /\ ("max" \in DOMAIN cblob.contest /\ cblob.contest["max"] < 1) =>
               (cres.status \in {"KeyError", "ValueError"} /\ DOMAIN cres.contest = {})
        /\ (cres.status = "ok" /\ "max" \in DOMAIN cres.contest) =>
               cres.contest["max"] >= 1
\* a blob of known keys with max 0 was turned down for its max
C20_Witness ==
    /\ cpc = "done" /\ cres.call = "Contest" /\ cres.status = "ValueError"
    /\ DOMAIN cblob.contest \subseteq ContestKeys
    /\ "max" \in DOMAIN cblob.contest /\ cblob.contest["max"] = 0

\* ------------------------------------------- properties of the merge engine
\* C21 as stated: the remote main only moves forward, to a descendant of its
\* earlier head, and each merge of a branch that ends in a successful push
\* adds exactly one commit to it.
C21_MainAppendOnly ==
    [][rmain' # rmain =>
          /\ IsAncestor(commits', rmain, rmain')
          /\ commits'[rmain'].par[1] = rmain]_vars

\* C22 as stated: a flush run with --remote (k = 0) that ends without an
\* exception has merged and deleted every branch that submissions left on
\* the remote, whether the submission went through, failed half-way or got
\* its branch on a second attempt.
C22_OrphansMerged ==
    (mpc = "idle" /\ mrun.status = "ok"
        /\ margs.remote /\ margs.flush /\ margs.k = 0) => rbr = {}

\* C24 as stated: merge_contest_branch takes a branch off the remote only
\* once the commit that merges it is on the remote main; and when the run
\* ended in the commit or the push of main, the branch is still there.
C24_DeleteAfterMerge ==
    [][/\ \A r \in rbr :
             (mpc = "delete" /\ r \notin rbr') =>
                 /\ rmain = lmain[MergeNode(margs)]
                 /\ rmain # r[2]
                 /\ IsAncestor(commits, r[2], rmain)
       /\ (mpc \in {"loop", "push"} /\ mrun'.status = "raised") =>
             rbr' = rbr]_vars

\* C25: when merge_contest_branch has gone through for a branch, the branch
\* is gone from the remote and every other remote branch is as it was;
\* without --remote the clone's local branch of that name is deleted too and
\* no other, with --remote no local branch of any clone is deleted.
C25_DeletesByMode ==
    [][(mpc = "delete" /\ mpc' = "loop") =>
          /\ mcur \in Names(rbr)
          /\ rbr' = {r \in rbr : r[1] # mcur}
          /\ IF margs.remote
             THEN lbr' = lbr
             ELSE /\ mcur \in Names(lbr["scanner"])
                  /\ lbr' = [lbr EXCEPT !["scanner"] = {r \in @ : r[1] # mcur}]]_vars
\* a run without --remote has deleted one of two branches, and a run with
\* --remote has deleted a branch while the scanner had a local branch
C25_Witness ==
    /\ mpc = "loop" /\ mrun.done # {}
    /\ \/ ~margs.remote /\ lbr["scanner"] # {} /\ rbr # {}
       \/ margs.remote /\ lbr["scanner"] # {}

\* C26: a branch whose tip changes no file (diff-tree prints nothing) is
\* passed over: no commit is made, no ref of the remote or of any clone
\* moves, the branch stays, nothing is raised and the loop goes on; and no
\* branch with such a tip is ever committed, pushed or deleted.
C26_EmptyDiffSkipped ==
    [][/\ \A b \in Names(ListedRefs(margs)) :
             (/\ mpc = "loop"
              /\ Len(commits[Tip(ListedRefs(margs), b)].par) # 1
              /\ mbatch' # mbatch
              /\ b \in Range(mbatch) \ Range(mbatch')) =>
                 /\ UNCHANGED <<gitvars, faults>>
                 /\ mpc' = "loop"
                 /\ mloop' = mloop - 1
                 /\ mrun'.status = "running"
                 /\ mrun'.skipped = mrun.skipped \cup {b}
                 /\ mrun'.done = mrun.done
       /\ mpc' \in {"push", "delete"} =>
             Len(commits'[Tip(ListedRefs(margs), mcur')].par) = 1]_vars
\* a branch was passed over and the run went on to merge another one
C26_Witness ==
    /\ mrun.skipped # {}
    /\ mrun.done # {}
    /\ mrun.status = "running"

\* ------------------------------------------- properties of the submission
\* C27: while no command of the submission has failed, the remote holds no
\* contest commit of the ballot before the last contest is committed; once
\* the push loop is through, each contest's branch is on the remote with the
\* digest of contest_receipts as its tip, and the clone has no local branch
\* of the ballot left.
C27_PushAfterAllCommits ==
    (asub.status \in {"running", "ok"} /\ ~asub.faulty) =>
        /\ apc \in {"contest", "attempt", "commit"} =>
              \A r \in rbr, u \in UIDS : r[2] # areceipts[u]
        /\ (apc = "receipt" \/ asub.status = "ok") =>
              /\ Len(abranches) = Len(aballot)
              /\ \A i \in 1..Len(aballot) :
                    /\ abranches[i] \in Names(rbr)
                    /\ Tip(rbr, abranches[i]) = areceipts[aballot[i]]
                    /\ commits[areceipts[aballot[i]]].kind = "cvr"
                    /\ abranches[i] \notin Names(lbr[S])
\* a two-contest ballot went through, and its first contest was committed
\* while the second was still to come
C27_Witness ==
    /\ asub.status = "ok" /\ ~asub.faulty
    /\ Len(aballot) = 2
    /\ asub.pushed = asub.committed /\ Cardinality(asub.pushed) = 2

\* C28: in an enumeration run the batches not yet handed over, together with
\* the uids already handled, cover every enumerated branch exactly once: one
\* batch per uid, holding all of that uid's branches; and a run that ends
\* without an exception has handled the batch of every uid, the last included.
C28_Grouping ==
    (mrun.status \in {"running", "ok"} /\ margs.branch = NoBranch) =>
        /\ \A g \in 1..Len(mgroups) :
              /\ mgroups[g] # <<>>
              /\ Range(mgroups[g]) = mrun.pool0[mgroups[g][1].uid]
              /\ Len(mgroups[g]) = Cardinality(Range(mgroups[g]))
              /\ mrun.ret[mgroups[g][1].uid] < 0
              /\ \A h \in 1..Len(mgroups) :
                    h # g => mgroups[h][1].uid # mgroups[g][1].uid
        /\ \A u \in UIDS :
              (mrun.pool0[u] # {} /\ mpc = "run") =>
                  \/ mrun.ret[u] >= 0
                  \/ \E g \in 1..Len(mgroups) : mgroups[g][1].uid = u
        /\ mrun.status = "ok" =>
              \A u \in UIDS : mrun.pool0[u] # {} => mrun.ret[u] >= 0
\* a run over branches of two uids has ended
C28_Witness ==
    /\ mrun.status = "ok"
    /\ \A u \in UIDS : mrun.pool0[u] # {} /\ mrun.ret[u] >= 0

\* the commits that hold a contest of the ballot in hand
BallotCommits ==
    {c \in 1..Len(commits) :
        /\ commits[c].kind = "cvr"
        /\ \E b \in asub.committed : commits[c].data = <<"contest", b.tok>>}

\* C29: every branch of a submission starts at a commit of main's history and
\* main is the checked-out branch again after each contest; so the parent of
\* every CVR commit is in the history of the scanner's main, and no contest
\* commit of a ballot is an ancestor of another contest commit of that ballot.
C29_BranchpointsOnMain ==
    /\ apc = "attempt" => abp \in Anc(commits, lmain[S])
    /\ apc \in {"idle", "pulled", "contest", "push", "receipt", "demo"} =>
          ahead = NoBranch
    /\ \A c \in 1..Len(commits) :
          commits[c].kind = "cvr" =>
              /\ Len(commits[c].par) = 1
              /\ commits[c].par[1] \in Anc(commits, lmain[S])
    /\ \A c, d \in BallotCommits : c # d => ~IsAncestor(commits, c, d)
\* the two contests of a ballot are committed, each on its own branch, and
\* main is checked out again
C29_Witness ==
    /\ Cardinality(BallotCommits) = 2
    /\ apc = "push" /\ ahead = NoBranch
    /\ Cardinality(Names(lbr[S])) = 2


\* C23: a merge-contests run that is given a branch pulls main, merges that
\* branch whatever k and flush are, and returns without listing the branches:
\* when it returns without an exception and the branch had a contest file,
\* the branch is the one branch dealt with, it is off the remote, and its tip
\* is in the history of the remote's main.
C23_ExplicitBranch ==
    (margs.branch # NoBranch /\ mpc = "idle" /\ mrun.status = "ok"
        /\ mrun.skipped = {}) =>
        /\ mrun.done = {margs.branch}
        /\ margs.branch \notin Names(rbr)
        /\ mrun.lost = {}
        /\ IsAncestor(commits, mrun.head0, rmain)

\* C23, the part that does not depend on what git merge did: a run with a
\* branch starts on the pulled main, never groups, works on that branch only,
\* and takes no other branch off the remote or off the clone.
C23_OnlyThatBranch ==
    [][(margs'.branch # NoBranch) =>
          /\ mgroups' = <<>>
          /\ mpc' \in {"idle", "loop", "push", "delete"}
          /\ mpc' \in {"push", "delete"} => mcur' = margs'.branch
          /\ (mpc = "idle" /\ mpc' = "loop") =>
                /\ mloop' = 1
                /\ IsAncestor(commits', rmain', lmain'[MergeNode(margs')])
          /\ mpc # "idle" =>
                /\ \A r \in rbr \ rbr' : r[1] = margs.branch
                /\ \A n \in Nodes : \A r \in lbr[n] \ lbr'[n] : r[1] = margs.branch
                /\ rbr' \subseteq rbr
                /\ rmain' # rmain =>
                      \A i \in 1..Len(commits'[rmain'].par) :
                          commits'[rmain'].par[i] \in
                              {mrun.head0, Tip(ListedRefs(margs), margs.branch)}]_vars

\* an explicit run with k above the number of branches and flush off merged
\* its branch and left another one on the remote
C23_Witness ==
    /\ margs.branch # NoBranch /\ mpc = "idle" /\ mrun.status = "ok"
    /\ margs.k >= 1 /\ ~margs.flush
    /\ mrun.done = {margs.branch} /\ mrun.lost = {}
    /\ rbr # {}

\* C30: a submission with merge_contests set pushes all of the ballot's
\* branches, then has each of them merged into main and taken off the remote,
\* and only then builds the receipt: when no command failed, the submission
\* ends normally with every branch of the ballot merged and gone.
C30_DemoMerges ==
    (asub.demo /\ ~asub.faulty /\ apc = "idle"
        /\ asub.status # "running" /\ Len(abranches) = Len(aballot)
        /\ asub.pushed # {}) =>
        /\ asub.status = "ok"
        /\ \A i \in 1..Len(abranches) :
              /\ abranches[i] \notin Names(rbr)
              /\ IsAncestor(commits, areceipts[aballot[i]], rmain)


\* C31: a merge-contests run that enumerates (no branch given) merges and
\* deletes only branches named [origin/]CVRs/<uid>/...: the branch in hand
\* always has such a name, every ref that a step of the run takes off the
\* remote or off a clone has one, and every commit the run adds to main has
\* as parents only the clone's main and the tip of such a branch.
C31_OnlyCvrNamespace ==
    [][(margs.branch = NoBranch /\ mpc # "idle") =>
          /\ mpc' \in {"push", "delete"} => mcur'.pfx
          /\ \A b \in Names(rbr) \ Names(rbr') : b.pfx
          /\ \A n \in Nodes : \A b \in Names(lbr[n]) \ Names(lbr'[n]) : b.pfx
          /\ Len(commits') > Len(commits) =>
                \A i \in 1..Len(commits'[Len(commits')].par) :
                    LET q == commits'[Len(commits')].par[i]
                    IN  \/ q = lmain[MergeNode(margs)]
                        \/ \E r \in ListedRefs(margs) : r[1].pfx /\ r[2] = q]_vars

\* a flush run that enumerated has merged a branch and ended, and a branch
\* whose name lacks the CVRs/ prefix is still on the remote
C31_Witness ==
    /\ margs.branch = NoBranch /\ mpc = "idle" /\ mrun.status = "ok"
    /\ mrun.done # {}
    /\ \E b \in Names(rbr) : ~b.pfx

\* C35: the count that randomly_merge_contests returns for a group equals the
\* number of branches of the group that the call committed on main, pushed
\* and deleted, and the merged total of a run that ended equals the number of
\* branches the run dealt with in that way, skipped branches not counted.
C35_CountIsMerged ==
    (RunSeen /\ margs.branch = NoBranch /\ mrun.status \in {"running", "ok"}) =>
        /\ \A u \in UIDS :
              mrun.ret[u] >= 0 => mrun.ret[u] = Cardinality(Merged(u))
        /\ mrun.status = "ok" => mrun.merged = Cardinality(mrun.done)

\* C36: a receipt built from a pool in which every uid of the ballot has at
\* least R entries has no INSUFFICIENT_CVRS cell in any row, and no uid is in
\* redacted_uids.
C36_NoSentinel ==
    (rpc = "done" /\ ~PoolDegraded) =>
        /\ rout.written
        /\ \A r \in 1..Len(rout.rows) : \A i \in 1..Len(rout.rows[r]) :
              rout.rows[r][i] # INSUFFICIENT_CVRS
        /\ RedactedUids(rR, rballot, rdig, rshuf, rout.index) = {}
\* two rows, a pool of exactly R entries for the first uid, and the voter's
\* own digest in the row of that pool that is not the voter's
C36_Witness ==
    /\ rpc = "done" /\ ~PoolDegraded /\ rR = 2
    /\ Len(rshuf[rballot[1]]) = rR
    /\ \E r \in 1..rR :
          r # rout.index /\ rshuf[rballot[1]][r] = rdig[rballot[1]]

\* C37: in a receipt built from a non-degraded pool, the cells of one column
\* are pairwise different: no digest is in two rows of a column, also when
\* the voter's own digest is in the pool and is replaced.
C37_ColumnDistinct ==
    (rpc = "done" /\ rout.written) =>
        /\ \A u \in UIDS : \A a, b \in 1..Len(rshuf[u]) :
              a # b => rshuf[u][a] # rshuf[u][b]
        /\ \A i \in 1..Len(rballot), r1, r2 \in 1..Len(rout.rows) :
              r1 # r2 => rout.rows[r1][i] # rout.rows[r2][i]
\* two contests and two rows; the voter's digest of the first contest is the
\* pool entry of the voter's row, that of the second is in the other row and
\* was replaced
C37_Witness ==
    /\ rpc = "done" /\ rout.written /\ rR = 2 /\ Len(rballot) = 2
    /\ rshuf[rballot[1]][rout.index] = rdig[rballot[1]]
    /\ \E r \in 1..rR :
          /\ r # rout.index
          /\ rshuf[rballot[2]][r] = rdig[rballot[2]]
          /\ rout.rows[r][2] = rshuf[rballot[2]][rout.index]

\* C38: when checkout_new_contest_branch raises its RuntimeError, after
\* MaxAttempts failed attempts, none of the names it tried is a local branch
\* of the clone and the branch checked out is the one that was checked out
\* when the function was entered.
C38_RaiseLeavesNothing ==
    [][(apc = "attempt" /\ acall'.error = "RuntimeError") =>
          /\ Len(acall'.names) = MaxAttempts
          /\ \A i \in 1..Len(acall'.names) : acall'.names[i] \notin Names(lbr'[S])
          /\ lbr'[S] = lbr[S]
          /\ ahead' = acall.head0]_vars
\* the second contest of a ballot could not get a branch: the call raised
\* after MaxAttempts attempts while the branch of the first contest is there
C38_Witness ==
    /\ acall.error = "RuntimeError" /\ Len(acall.names) = MaxAttempts
    /\ asub.status = "raised" /\ Len(abranches) = 1
    /\ abranches[1] \in Names(lbr[S])

\* a flush run has ended without an exception, and the run before it was a
\* run without flush and with the same k that ended without an exception;
\* nothing was submitted in between
FlushAfterNonFlush ==
    /\ mpc = "idle" /\ mrun.status = "ok" /\ margs.flush
    /\ margs.branch = NoBranch
    /\ mprev.status = "ok" /\ ~mprev.flush /\ mprev.k = margs.k

\* C34 as stated: after a run without flush and then a flush run with the
\* same k, nothing submitted in between, no uid has a pending CVR branch.
C34_NonePending ==
    FlushAfterNonFlush => \A u \in UIDS : Pending(u) = {}

\* C34, the part that holds: after a run without flush and then a flush run
\* with the same k, nothing submitted in between, a uid of which the first run
\* skipped no branch has no pending CVR branch other than those that the
\* flush run skipped for an empty diff; it has none when no branch was skipped.
C34_NonePendingButSkipped ==
    FlushAfterNonFlush =>
        \A u \in UIDS :
            (\A b \in mprev.skipped : b.uid # u) =>
                /\ Pending(u) = Skipped(u)
                /\ \A b \in Pending(u) :
                      DiffTreeFiles(commits, Tip(PendingRefs, b)) = {}
\* with k = 1 the first run merged one of two branches of a uid and the flush
\* run the other
C34_Witness ==
    /\ FlushAfterNonFlush /\ margs.k >= 1
    /\ mrun.done # {} /\ mrun.skipped = {} /\ mprev.skipped = {}
    /\ Len(commits) >= 5
    /\ \A u \in UIDS : Pending(u) = {}

\* the commands of the driver other than git gc
NotGc(e) == e.cmd # "git gc"
MockLog == SelectSeq(drv.log, NotGc)
\* the commands of one blank ballot with device both
BallotCycle(flush_mode) ==
    <<Cmd("git pull", FALSE, FALSE, TRUE), Cmd("cast-ballot", FALSE, FALSE, TRUE),
      Cmd("accept-ballot", FALSE, FALSE, TRUE),
      Cmd("merge-contests", flush_mode = 2, FALSE, TRUE)>>

RemoteReachable ==
    Anc(commits, rmain) \cup UNION {Anc(commits, r[2]) : r \in rbr}

\* C32: with the steps of a submission and of merge-contests -r runs
\* interleaved in any order and no command failing, every digest in the
\* contest_receipts of a completed submission is, from then on, reachable on
\* the remote from a branch or from main.
C32_ReceiptsStayReachable ==
    faults = 0 => \A d \in aissued : d \in RemoteReachable

\* C33: a branch name is held by at most one scanner at a time: while one
\* scanner is between the return of checkout_new_contest_branch and the last
\* push of its contest on a name, the other scanner's submission under way
\* has not been given that name, as long as no command failed
C33_OneHolder ==
    faults = 0 =>
        ~(/\ peer.got # NoBranch
          /\ asub.status = "running"
          /\ peer.got \in asub.created \ asub.pushed)

\* C33, the other half of the race: every contest a scanner committed on a
\* name it was given reaches the remote
C33_NoContestLost == faults = 0 => peer.lost = {}


====
